---------------------------- MODULE Spec2Model ----------------------------
(***************************************************************************)
(* Model of src/src/modelling.py: the three pipeline stages                *)
(*   feature_engineering()  (lines 34-70)                                  *)
(*   model()                (lines 72-132)                                 *)
(*   write_preds_to_db()    (lines 134-173)                                *)
(* Every try/except block of a stage is one action; an action chooses how  *)
(* far the block gets before an exception is swallowed by its bare except. *)
(*                                                                         *)
(* SpecPipeline runs feature_engineering and then model on a raw dataset   *)
(* drawn from a bounded universe.  SpecPublish runs write_preds_to_db      *)
(* again and again against one preds table; SpecConcurrent runs two        *)
(* invocations of it at once.                                              *)
(***************************************************************************)
EXTENDS Integers, Sequences, FiniteSets

VARIABLES
    \* ---- files and stores that outlive a stage
    s3obj,        \* the raw dataset held by the S3 bucket
    localRaw,     \* config.LOCAL_S3_DATA_FILEPATH
    feFile,       \* config.LOCAL_FE_DATA_FILEPATH
    modelFile,    \* config.MODEL_OBJECT_FILEPATH
    predsFile,    \* config.LOCAL_PREDS_DATA_FILEPATH (as written by model)
    \* ---- feature_engineering(): position, the local cbb, the blocks whose
    \*      except clause ran, and whether a block ran after one had failed
    fe_pc, cbb, fe_failed, fe_late,
    \* ---- model(): position and locals; encoded is the set of labels handed
    \*      to map(factor_dict), fitArg the y handed to classifier.fit
    m_pc, m_cbb, train, test, X_train, y_train, X_test,
    scaler, classifier, encoded, fitArg, m_failed, m_late,
    \* ---- the preds table (committed rows) and the holder of its write lock
    table, lock,
    \* ---- write_preds_to_db(), one entry per invocation: position, the
    \*      Session's transaction, locals, the steps that raised, whether a
    \*      step ran after one had failed, the table when the invocation
    \*      began, the set it committed, the rows its INSERT collided with
    pub_pc, tx, preds, preds_rows, pub_failed, pub_late,
    startTable, published, collided

feVars  == <<s3obj, localRaw, feFile, fe_pc, cbb, fe_failed, fe_late>>
mVars   == <<modelFile, predsFile, m_pc, m_cbb, train, test, X_train, y_train,
             X_test, scaler, classifier, encoded, fitArg, m_failed, m_late>>
pubVars == <<table, lock, pub_pc, tx, preds, preds_rows, pub_failed, pub_late,
             startTable, published, collided>>
vars    == <<feVars, mVars, pubVars>>

(***************************************************************************)
(* Bounds                                                                  *)
(***************************************************************************)
MaxRows  == 2      \* records in the raw dataset
MaxPreds == 2      \* records in a predictions CSV read by the publisher

(***************************************************************************)
(* Values.  A Python local is Unset until assigned; a file is Missing      *)
(* until written.  Floats are records so that NaN and inf are values.      *)
(***************************************************************************)
Unset      == [def |-> FALSE]
Def(v)     == [def |-> TRUE, v |-> v]
Missing    == Unset

Num(a, b)  == [k |-> "num", n |-> a, d |-> b]
NaN        == [k |-> "nan", n |-> 0, d |-> 0]
PosInf     == [k |-> "inf", n |-> 1, d |-> 0]
NegInf     == [k |-> "inf", n |-> -1, d |-> 0]
Absent     == [k |-> "absent", n |-> 0, d |-> 0]   \* column not in the frame
IsFinite(x) == x.k = "num"

\* pandas true division of two integer columns (lines 60, 62): x/0 is
\* +-inf and 0/0 is NaN; no exception is raised.
Div(a, b) ==
    IF b # 0 THEN Num(a, b)
    ELSE IF a = 0 THEN NaN
    ELSE IF a > 0 THEN PosInf ELSE NegInf

RECURSIVE SumSeq(_)
SumSeq(s) == IF s = <<>> THEN 0 ELSE Head(s) + SumSeq(Tail(s))

Indices(s) == 1..Len(s)

(***************************************************************************)
(* The raw dataset.  Team is the row's position, so rows are distinct.     *)
(* Conf "NaN" is a missing conference cell.  The 15 raw performance        *)
(* metrics are copied through unchanged by every stage and are left out.   *)
(***************************************************************************)
TargetYear == 2020
Years      == {2019, 2020}
Confs      == {"A", "ind", "NaN"}
Stats      == { [Power_Rating |-> 10, Games |-> 2, Wins |-> 1, WAB |-> -1, Postseason |-> "R68"],
                [Power_Rating |-> 20, Games |-> 2, Wins |-> 2, WAB |-> 1,  Postseason |-> "CHAMPS"],
                [Power_Rating |-> 20, Games |-> 0, Wins |-> 1, WAB |-> -1, Postseason |-> "R64"],
                [Power_Rating |-> 10, Games |-> 2, Wins |-> 1, WAB |-> 1,  Postseason |-> "N/A"] }
Cells      == [Year : Years, Conf : Confs, stat : Stats]

RawRow(i, c) ==
    [Team |-> i, Year |-> c.Year, Conf |-> c.Conf,
     Power_Rating |-> c.stat.Power_Rating, Games |-> c.stat.Games,
     Wins |-> c.stat.Wins, WAB |-> c.stat.WAB, Postseason |-> c.stat.Postseason,
     avg_conf_power_rating |-> Absent, win_perc |-> Absent, wab_perc |-> Absent]

RawDatasets ==
    UNION { { [i \in 1..n |-> RawRow(i, f[i])] : f \in [1..n -> Cells] } : n \in 1..MaxRows }

(***************************************************************************)
(* feature_engineering                                                     *)
(***************************************************************************)
\* line 51: cbb.groupby(['Year','Conf']).mean()['Power_Rating'].  groupby
\* drops the rows whose key is missing, so a missing Conf has no group.
GroupRows_ByConfOnly(df, year, conf) ==
    SelectSeq(df, LAMBDA r : r.Conf = conf)

GroupRows(df, year, conf) ==
    SelectSeq(df, LAMBDA r : r.Year = year /\ r.Conf = conf)

GroupMean(df, year, conf) ==
    LET g == GroupRows(df, year, conf)
    IN  Num(SumSeq([i \in Indices(g) |-> g[i].Power_Rating]), Len(g))

HasGroup(df, year, conf) ==
    conf # "NaN" /\ GroupRows(df, year, conf) # <<>>

\* lines 53-55: the lambda applied to one row.
AvgFor(df, r) ==
    IF r.Conf # "ind" THEN GroupMean(df, r.Year, r.Conf) ELSE Num(1, 2)

\* lines 53-55: .loc raises KeyError for a row whose (Year, Conf) has no group.
AvgRaises(df) ==
    \E i \in Indices(df) : df[i].Conf # "ind" /\ ~HasGroup(df, df[i].Year, df[i].Conf)

WithAvg(df) ==
    [i \in Indices(df) |-> [df[i] EXCEPT !.avg_conf_power_rating = AvgFor(df, df[i])]]

\* line 58
RemapPostseason(x) == IF x = "R68" THEN "DIDNT_MAKE" ELSE x

WithPostseason(df) ==
    [i \in Indices(df) |-> [df[i] EXCEPT !.Postseason = RemapPostseason(df[i].Postseason)]]

\* lines 60, 62
WithPercs(df) ==
    [i \in Indices(df) |->
        [df[i] EXCEPT !.win_perc = Div(df[i].Wins, df[i].Games),
                      !.wab_perc = Div(df[i].WAB, df[i].Games)]]

\* lines 49-62 run to the end
Engineered(df) == WithPercs(WithPostseason(WithAvg(df)))

\* lines 40-45
FE_Download ==
    /\ fe_pc = "s3"
    /\ fe_pc' = "engineer"
    /\ \/ /\ localRaw' = Def(s3obj)
          /\ UNCHANGED fe_failed
       \/ /\ fe_failed' = fe_failed \cup {"s3"}
          /\ UNCHANGED localRaw
    /\ UNCHANGED <<s3obj, feFile, cbb, fe_late, mVars, pubVars>>

\* lines 48-64
FE_Engineer ==
    /\ fe_pc = "engineer"
    /\ fe_pc' = "save"
    /\ fe_late' = (fe_late \/ fe_failed # {})
    /\ \/ \* read_csv raises: cbb stays unassigned
          /\ fe_failed' = fe_failed \cup {"engineer"}
          /\ UNCHANGED cbb
       \/ /\ localRaw.def
          /\ IF AvgRaises(localRaw.v)
             THEN /\ cbb' = Def(localRaw.v)
                  /\ fe_failed' = fe_failed \cup {"engineer"}
             ELSE /\ cbb' = Def(Engineered(localRaw.v))
                  /\ UNCHANGED fe_failed
    /\ UNCHANGED <<s3obj, localRaw, feFile, mVars, pubVars>>

\* lines 66-70
FE_Save ==
    /\ fe_pc = "save"
    /\ fe_pc' = "done"
    /\ fe_late' = (fe_late \/ fe_failed # {})
    /\ \/ /\ cbb.def
          /\ feFile' = Def(cbb.v)
          /\ UNCHANGED fe_failed
       \/ \* NameError on an unassigned cbb, or to_csv raises
          /\ fe_failed' = fe_failed \cup {"save"}
          /\ UNCHANGED feFile
    /\ UNCHANGED <<s3obj, localRaw, cbb, mVars, pubVars>>

(***************************************************************************)
(* model                                                                   *)
(***************************************************************************)
TrainSplit_UpToTarget(df) == SelectSeq(df, LAMBDA r : r.Year <= TargetYear)

\* line 81
TrainSplit(df) == SelectSeq(df, LAMBDA r : r.Year # TargetYear)
\* line 82
TestSplit(df)  == SelectSeq(df, LAMBDA r : r.Year = TargetYear)

\* line 86: the literal list handed to pd.factorize
Vocabulary ==
    << "DIDNT_MAKE", "R64", "R32", "Sweet Sixteen", "Elite Eight",
       "Final Four", "Finals", "CHAMPS" >>

\* pd.factorize: uniques in order of first appearance, and for every
\* element the position of its value among the uniques.
RECURSIVE Uniques(_)
Uniques(s) ==
    IF s = <<>> THEN <<>>
    ELSE LET h == Uniques(SubSeq(s, 1, Len(s) - 1))
             x == s[Len(s)]
         IN  IF \E i \in Indices(h) : h[i] = x THEN h ELSE Append(h, x)

PosIn(u, x) == CHOOSE i \in Indices(u) : u[i] = x

Factorize(s) ==
    [codes   |-> [i \in Indices(s) |-> PosIn(Uniques(s), s[i]) - 1],
     uniques |-> Uniques(s)]

\* line 87: {uniques[i]: codes[i] for i in range(len(uniques))}
factor_dict ==
    LET f == Factorize(Vocabulary)
    IN  [l \in {f.uniques[i] : i \in Indices(f.uniques)} |->
            f.codes[CHOOSE i \in Indices(f.uniques) : f.uniques[i] = l]]

\* line 88: Series.map(dict) gives NaN for a key the dict does not hold.
EncodeLabel(l) == IF l \in DOMAIN factor_dict THEN Num(factor_dict[l], 1) ELSE NaN

\* lines 121-124
round_dict ==
    [r \in 0..7 |->
        CASE r = 0 -> "Sorry, your team did not qualify for the tournament. Better luck next year!"
          [] r = 1 -> "Congrats! Your team made it to the Round of 64!"
          [] r = 2 -> "Wow! Your team made it to the Round of 32!"
          [] r = 3 -> "Sensational! Your team made it to the Sweet Sixteen!"
          [] r = 4 -> "Amazing! Your team made it to the Elite Eight!"
          [] r = 5 -> "Unbelievable! Your team made it to the Final Four!"
          [] r = 6 -> "Holy cow! Your team made it to the Finals!"
          [] r = 7 -> "YOUR TEAM WAS CROWNED CHAMPIONS!!!"]

\* line 126
DecodeRank(r) == IF r \in DOMAIN round_dict THEN round_dict[r] ELSE "NaN"

\* lines 90-91, 95-96: the two engineered columns of the 17 selected ones.
\* Selecting a column the frame does not have raises KeyError.
HasFeatureColumns(df) ==
    \A i \in Indices(df) : df[i].win_perc # Absent /\ df[i].wab_perc # Absent

Features(df) ==
    [rows   |-> [i \in Indices(df) |-> [win_perc |-> df[i].win_perc, wab_perc |-> df[i].wab_perc]],
     scaled |-> FALSE]

\* StandardScaler.fit_transform / transform (lines 103-104) validate their
\* input: no rows, NaN or infinity raise ValueError.
ScalerRaises(X) ==
    \/ X.rows = <<>>
    \/ \E i \in Indices(X.rows) : ~IsFinite(X.rows[i].win_perc) \/ ~IsFinite(X.rows[i].wab_perc)

\* classifier.fit (line 107) validates y: a NaN label raises ValueError.
FitRejects(y) == \E i \in Indices(y) : ~IsFinite(y[i])

CanPredict_AnyClassifier(c) == c # "unset"

\* classifier.predict (line 115): NameError when classifier was never
\* assigned, NotFittedError when fit did not complete.
CanPredict(c) == c = "fitted"

\* the classes a fitted classifier can answer with
Classes(y) == {y[i].n : i \in Indices(y)}

\* lines 117-128
PredictionRows(tst, p) ==
    [i \in Indices(tst) |->
        [Team |-> tst[i].Team, pred_factor |-> p[i], pred_round |-> DecodeRank(p[i])]]

\* lines 78-98
Model_Load ==
    /\ fe_pc = "done"
    /\ m_pc = "load"
    /\ m_pc' = "train"
    /\ \/ \* read_csv raises
          /\ m_failed' = m_failed \cup {"load"}
          /\ UNCHANGED <<m_cbb, train, test, X_train, y_train, X_test, encoded>>
       \/ /\ feFile.def
          /\ LET df == feFile.v
                 tr == TrainSplit(df)
             IN  /\ m_cbb' = Def(df)
                 /\ train' = Def(tr)
                 /\ test' = Def(TestSplit(df))
                 /\ encoded' = {tr[i].Postseason : i \in Indices(tr)}
                 /\ IF HasFeatureColumns(df)
                    THEN /\ X_train' = Def(Features(tr))
                         /\ y_train' = Def([i \in Indices(tr) |-> EncodeLabel(tr[i].Postseason)])
                         /\ X_test' = Def(Features(TestSplit(df)))
                         /\ UNCHANGED m_failed
                    ELSE /\ m_failed' = m_failed \cup {"load"}
                         /\ UNCHANGED <<X_train, y_train, X_test>>
    /\ UNCHANGED <<modelFile, predsFile, scaler, classifier, fitArg, m_late, feVars, pubVars>>

\* lines 101-111
Model_Train ==
    /\ m_pc = "train"
    /\ m_pc' = "predict"
    /\ m_late' = (m_late \/ m_failed # {})
    /\ IF ~X_train.def \/ ScalerRaises(X_train.v)
       THEN \* line 103 raises
            /\ scaler' = "created"
            /\ m_failed' = m_failed \cup {"scaler"}
            /\ UNCHANGED <<X_train, X_test, classifier, fitArg, modelFile>>
       ELSE /\ scaler' = "fitted"
            /\ X_train' = Def([X_train.v EXCEPT !.scaled = TRUE])
            /\ IF ~X_test.def \/ ScalerRaises(X_test.v)
               THEN \* line 104 raises
                    /\ m_failed' = m_failed \cup {"scaler"}
                    /\ UNCHANGED <<X_test, classifier, fitArg, modelFile>>
               ELSE /\ X_test' = Def([X_test.v EXCEPT !.scaled = TRUE])
                    /\ fitArg' = y_train
                    /\ \/ \* line 107 raises
                          /\ classifier' = "created"
                          /\ m_failed' = m_failed \cup {"fit"}
                          /\ UNCHANGED modelFile
                       \/ /\ ~FitRejects(y_train.v)
                          /\ classifier' = "fitted"
                          /\ \/ /\ modelFile' = Def(y_train.v)
                                /\ UNCHANGED m_failed
                             \/ \* line 109 raises
                                /\ m_failed' = m_failed \cup {"pickle"}
                                /\ UNCHANGED modelFile
    /\ UNCHANGED <<predsFile, m_cbb, train, test, y_train, encoded, feVars, pubVars>>

\* lines 114-132
Model_Predict ==
    /\ m_pc = "predict"
    /\ m_pc' = "done"
    /\ m_late' = (m_late \/ m_failed # {})
    /\ \/ \* line 115 or line 130 raises
          /\ m_failed' = m_failed \cup {"predict"}
          /\ UNCHANGED predsFile
       \/ /\ CanPredict(classifier)
          /\ \E p \in [Indices(test.v) -> Classes(y_train.v)] :
                predsFile' = Def(PredictionRows(test.v, p))
          /\ UNCHANGED m_failed
    /\ UNCHANGED <<modelFile, m_cbb, train, test, X_train, y_train, X_test, scaler,
                   classifier, encoded, fitArg, feVars, pubVars>>

(***************************************************************************)
(* write_preds_to_db                                                       *)
(*                                                                         *)
(* The preds table is the committed content a reader can see.  A Session   *)
(* made by sessionmaker(bind=engine) is transactional: the DELETE of line  *)
(* 148 and the INSERTs flushed by line 173 belong to one transaction that  *)
(* line 173 commits, and a Session dropped without commit is rolled back.  *)
(* The database lets one transaction write the table at a time: the first  *)
(* write takes the table's write lock until commit or rollback, and a      *)
(* statement that cannot get the lock waits or raises.                     *)
(***************************************************************************)
Runs   == {1, 2}
NoRun  == 0

PredRecs ==
    { [Team |-> 1, pred_factor |-> 0, pred_round |-> DecodeRank(0)],
      [Team |-> 2, pred_factor |-> 7, pred_round |-> DecodeRank(7)] }

\* the contents config.LOCAL_PREDS_DATA_FILEPATH may have when line 155 reads it
PredFiles == UNION { [1..n -> PredRecs] : n \in 0..MaxPreds }

\* lines 162-167: iterrows over the RangeIndex read_csv gives the frame, so
\* the index of the i-th row (counted from 1) is i - 1.
PredsRow_IdFromOne(i, row) ==
    [id |-> i, Team |-> row.Team, pred_factor |-> row.pred_factor,
     pred_round |-> row.pred_round]

PredsRow(i, row) ==
    [id |-> i - 1, Team |-> row.Team, pred_factor |-> row.pred_factor,
     pred_round |-> row.pred_round]

CollectRows(p) == [i \in Indices(p) |-> PredsRow(i, p[i])]

RowSet(rows) == {rows[i] : i \in Indices(rows)}

\* what the transaction of a run sees of the table before its INSERTs
Remaining(deleted, tbl) == IF deleted THEN {} ELSE tbl

\* line 26: id is the primary key
PkCollision(tbl, rows) ==
    \E t \in tbl : \E i \in Indices(rows) : rows[i].id = t.id

Active(r) == pub_pc[r] \in {"delete", "read", "collect", "commit"}

Release(r) == IF lock = r THEN NoRun ELSE lock

\* what line 148 raises: the database refusing the write while another
\* transaction holds the table, or any other error
DeleteError(r) == IF lock \in {NoRun, r} THEN "delete" ELSE "delete_busy"

\* the committed rows whose id a row to insert has
Collisions(tbl, rows) ==
    {t \in tbl : \E i \in Indices(rows) : rows[i].id = t.id}

\* lines 141-144
Pub_Start(r) ==
    /\ pub_pc[r] \in {"idle", "done", "raised"}
    /\ pub_pc' = [pub_pc EXCEPT ![r] = "delete"]
    /\ tx' = [tx EXCEPT ![r] = [deleted |-> FALSE]]
    /\ preds' = [preds EXCEPT ![r] = Unset]
    /\ preds_rows' = [preds_rows EXCEPT ![r] = <<>>]
    /\ pub_failed' = [pub_failed EXCEPT ![r] = {}]
    /\ pub_late' = [pub_late EXCEPT ![r] = FALSE]
    /\ startTable' = [startTable EXCEPT ![r] = table]
    /\ collided' = [collided EXCEPT ![r] = {}]
    /\ published' = [published EXCEPT ![r] = Unset]
    /\ UNCHANGED <<table, lock, feVars, mVars>>

\* lines 147-150
Pub_Delete(r) ==
    /\ pub_pc[r] = "delete"
    /\ pub_pc' = [pub_pc EXCEPT ![r] = "read"]
    /\ \/ /\ lock \in {NoRun, r}
          /\ lock' = r
          /\ tx' = [tx EXCEPT ![r].deleted = TRUE]
          /\ UNCHANGED pub_failed
       \/ \* session.execute raises; except: pass
          /\ pub_failed' = [pub_failed EXCEPT ![r] = @ \cup {DeleteError(r)}]
          /\ UNCHANGED <<lock, tx>>
    /\ UNCHANGED <<table, preds, preds_rows, pub_late, startTable, published,
                   collided, feVars, mVars>>

\* lines 153-158
Pub_ReadCsv(r) ==
    /\ pub_pc[r] = "read"
    /\ pub_pc' = [pub_pc EXCEPT ![r] = "collect"]
    /\ pub_late' = [pub_late EXCEPT ![r] = @ \/ pub_failed[r] # {}]
    /\ \/ /\ \E p \in PredFiles : preds' = [preds EXCEPT ![r] = Def(p)]
          /\ UNCHANGED pub_failed
       \/ \* read_csv raises; preds stays unassigned
          /\ pub_failed' = [pub_failed EXCEPT ![r] = @ \cup {"read"}]
          /\ UNCHANGED preds
    /\ UNCHANGED <<table, lock, tx, preds_rows, startTable, published,
                   collided, feVars, mVars>>

\* lines 161-167
Pub_Collect(r) ==
    /\ pub_pc[r] = "collect"
    /\ pub_late' = [pub_late EXCEPT ![r] = @ \/ pub_failed[r] # {}]
    /\ IF preds[r].def
       THEN /\ preds_rows' = [preds_rows EXCEPT ![r] = CollectRows(preds[r].v)]
            /\ pub_pc' = [pub_pc EXCEPT ![r] = "commit"]
            /\ UNCHANGED <<lock, pub_failed>>
       ELSE \* NameError at line 162 leaves the function; the Session is dropped
            /\ pub_pc' = [pub_pc EXCEPT ![r] = "raised"]
            /\ lock' = Release(r)
            /\ pub_failed' = [pub_failed EXCEPT ![r] = @ \cup {"collect"}]
            /\ UNCHANGED preds_rows
    /\ tx' = [tx EXCEPT ![r] = IF preds[r].def THEN @ ELSE [deleted |-> FALSE]]
    /\ UNCHANGED <<table, preds, startTable, published, collided,
                   feVars, mVars>>

\* lines 172-173
Pub_Commit(r) ==
    /\ pub_pc[r] = "commit"
    /\ pub_late' = [pub_late EXCEPT ![r] = @ \/ pub_failed[r] # {}]
    /\ \/ /\ lock \in {NoRun, r}
          /\ IF PkCollision(Remaining(tx[r].deleted, table), preds_rows[r])
             THEN \* IntegrityError leaves the function; nothing is committed
                  /\ pub_pc' = [pub_pc EXCEPT ![r] = "raised"]
                  /\ pub_failed' = [pub_failed EXCEPT ![r] = @ \cup {"commit"}]
                  /\ collided' = [collided EXCEPT ![r] =
                                      Collisions(Remaining(tx[r].deleted, table), preds_rows[r])]
                          /\ UNCHANGED <<table, published>>
             ELSE /\ table' = Remaining(tx[r].deleted, table) \cup RowSet(preds_rows[r])
                  /\ pub_pc' = [pub_pc EXCEPT ![r] = "done"]
                  /\ published' = [published EXCEPT ![r] = preds[r]]
                  /\ UNCHANGED <<pub_failed, collided>>
       \/ \* the flush or the commit raises for another reason
          /\ pub_pc' = [pub_pc EXCEPT ![r] = "raised"]
          /\ pub_failed' = [pub_failed EXCEPT ![r] = @ \cup {"commit"}]
          /\ UNCHANGED <<table, published, collided>>
    /\ lock' = Release(r)
    \* the function is left: its locals are gone
    /\ tx' = [tx EXCEPT ![r] = [deleted |-> FALSE]]
    /\ preds' = [preds EXCEPT ![r] = Unset]
    /\ preds_rows' = [preds_rows EXCEPT ![r] = <<>>]
    /\ UNCHANGED <<startTable, feVars, mVars>>

(***************************************************************************)
(* Specifications                                                          *)
(***************************************************************************)
InitFE ==
    /\ s3obj \in RawDatasets
    /\ localRaw = Missing
    /\ feFile = Missing
    /\ fe_pc = "s3"
    /\ cbb = Unset
    /\ fe_failed = {}
    /\ fe_late = FALSE

InitModel ==
    /\ modelFile = Missing
    /\ predsFile = Missing
    /\ m_pc = "load"
    /\ m_cbb = Unset /\ train = Unset /\ test = Unset
    /\ X_train = Unset /\ y_train = Unset /\ X_test = Unset
    /\ scaler = "unset"
    /\ classifier = "unset"
    /\ encoded = {}
    /\ fitArg = Unset
    /\ m_failed = {}
    /\ m_late = FALSE

InitPub ==
    /\ table = {}
    /\ lock = NoRun
    /\ pub_pc = [r \in Runs |-> "idle"]
    /\ tx = [r \in Runs |-> [deleted |-> FALSE]]
    /\ preds = [r \in Runs |-> Unset]
    /\ preds_rows = [r \in Runs |-> <<>>]
    /\ pub_failed = [r \in Runs |-> {}]
    /\ pub_late = [r \in Runs |-> FALSE]
    /\ startTable = [r \in Runs |-> {}]
    /\ published = [r \in Runs |-> Unset]
    /\ collided = [r \in Runs |-> {}]

Init == InitFE /\ InitModel /\ InitPub

NextPipeline ==
    \/ FE_Download
    \/ FE_Engineer
    \/ FE_Save
    \/ Model_Load
    \/ Model_Train
    \/ Model_Predict

\* one caller invoking the function again and again, any number of times
NextPublish ==
    \/ Pub_Start(1)
    \/ Pub_Delete(1)
    \/ Pub_ReadCsv(1)
    \/ Pub_Collect(1)
    \/ Pub_Commit(1)

SpecPipeline == Init /\ [][NextPipeline]_vars

\* the publisher does not read the dataset: one raw dataset is enough here
OneDataset ==
    <<RawRow(1, [Year |-> TargetYear, Conf |-> "ind",
                 stat |-> CHOOSE st \in Stats : st.Postseason = "R64"])>>

InitPublish ==
    /\ s3obj = OneDataset
    /\ localRaw = Missing
    /\ feFile = Missing
    /\ fe_pc = "s3"
    /\ cbb = Unset
    /\ fe_failed = {}
    /\ fe_late = FALSE
    /\ InitModel
    /\ InitPub

SpecPublish == InitPublish /\ [][NextPublish]_vars

\* two invocations, each made once, interleaved in any way, against a table
\* that holds what an earlier invocation published
NextConcurrent ==
    \E r \in Runs :
        \/ pub_pc[r] = "idle" /\ Pub_Start(r)
        \/ Pub_Delete(r)
        \/ Pub_ReadCsv(r)
        \/ Pub_Collect(r)
        \/ Pub_Commit(r)

InitConcurrent ==
    /\ s3obj = OneDataset
    /\ localRaw = Missing
    /\ feFile = Missing
    /\ fe_pc = "s3"
    /\ cbb = Unset
    /\ fe_failed = {}
    /\ fe_late = FALSE
    /\ InitModel
    /\ table \in {RowSet(CollectRows(p)) : p \in PredFiles}
    /\ lock = NoRun
    /\ pub_pc = [r \in Runs |-> "idle"]
    /\ tx = [r \in Runs |-> [deleted |-> FALSE]]
    /\ preds = [r \in Runs |-> Unset]
    /\ preds_rows = [r \in Runs |-> <<>>]
    /\ pub_failed = [r \in Runs |-> {}]
    /\ pub_late = [r \in Runs |-> FALSE]
    /\ startTable = [r \in Runs |-> {}]
    /\ published = [r \in Runs |-> Unset]
    /\ collided = [r \in Runs |-> {}]

SpecConcurrent == InitConcurrent /\ [][NextConcurrent]_vars

(***************************************************************************)
(* Properties                                                              *)
(***************************************************************************)
Returned(r) == pub_pc[r] = "done"
Left(r)     == pub_pc[r] \in {"done", "raised"}

\* the rows a predictions set p is to be published as, stated from p alone
IsPublicationOf(tbl, p) ==
    /\ Cardinality(tbl) = Len(p)
    /\ \A i \in 1..Len(p) :
          \E t \in tbl : /\ t.id = i - 1
                         /\ t.Team = p[i].Team
                         /\ t.pred_factor = p[i].pred_factor
                         /\ t.pred_round = p[i].pred_round

\* C1: after a run of write_preds_to_db in which every step succeeded, the
\* preds table holds exactly one row per record of that run's predictions
\* set, with id the record's zero-based position and Team, pred_factor,
\* pred_round copied from it, and no row of an earlier run.
C1_FullReplace ==
    (Returned(1) /\ pub_failed[1] = {}) =>
        published[1].def /\ IsPublicationOf(table, published[1].v)

\* a two-row table replaced by a one-record set
C1_Witness ==
    /\ Returned(1) /\ pub_failed[1] = {}
    /\ Cardinality(startTable[1]) = 2
    /\ published[1].def /\ Len(published[1].v) = 1
    /\ Cardinality(table) = 1

\* C2: a publish is one logical unit: while a run is under way a reader sees
\* the previous set; once the run is over the table is the complete new set
\* if no step failed, and is unchanged from before the run if any step (the
\* DELETE, the CSV load, building the rows, the insert or the commit) failed.
C2_AtomicPublish ==
    /\ Active(1) => table = startTable[1]
    /\ Left(1) =>
          IF pub_failed[1] = {}
          THEN published[1].def /\ table = RowSet(CollectRows(published[1].v))
          ELSE table = startTable[1]

\* C3: two concurrent runs are serialized: when nothing fails but what the
\* other run's hold on the table makes fail, no run hits a primary-key
\* collision with a row the other run inserted while it was executing, and
\* once both are over the table is exactly the complete set of one of the
\* runs that committed (not a mix, and not empty unless that set is empty).
C3_ConcurrentRunsSerialized ==
    (\A r \in Runs : pub_failed[r] \subseteq {"delete_busy", "commit"}) =>
        /\ \A r \in Runs : collided[r] \subseteq startTable[r]
        /\ ((\A r \in Runs : Left(r)) /\ (\E r \in Runs : published[r].def)) =>
              \E r \in Runs : /\ published[r].def
                              /\ table = RowSet(CollectRows(published[r].v))

\* C4: every stage fails fast: no step of feature_engineering, model or
\* write_preds_to_db is executed after an earlier step of the same stage
\* failed, and a stage in which a step failed does not return normally.
C4_FailFast ==
    /\ ~fe_late
    /\ ~m_late
    /\ \A r \in Runs : ~pub_late[r]
    /\ fe_pc = "done" => fe_failed = {}
    /\ m_pc = "done" => m_failed = {}
    /\ \A r \in Runs : Returned(r) => pub_failed[r] = {}

\* C5: the split of model() partitions the engineered dataset: train is
\* exactly the records whose Year differs from the target year, test exactly
\* those whose Year equals it, they share no record and together hold every
\* record.
C5_SplitPartitions ==
    train.def =>
        LET all == RowSet(m_cbb.v)
            tr  == RowSet(train.v)
            te  == RowSet(test.v)
        IN  /\ test.def
            /\ tr = {r \in all : r.Year # TargetYear}
            /\ te = {r \in all : r.Year = TargetYear}
            /\ tr \cap te = {}
            /\ tr \cup te = all
            /\ Len(train.v) + Len(test.v) = Len(m_cbb.v)

\* a dataset with a record on each side of the split
C5_Witness ==
    /\ train.def /\ test.def
    /\ Len(train.v) = 1 /\ Len(test.v) = 1

\* C6: a training label outside the 8-label vocabulary fails the run at
\* encoding; it is never mapped to a missing rank and handed to
\* classifier.fit.
C6_OovLabelFailsEncoding ==
    fitArg.def => \A i \in Indices(fitArg.v) : IsFinite(fitArg.v[i])

\* C7: a record with Games = 0 fails feature_engineering: no win_perc or
\* wab_perc value is produced for it and no engineered dataset holding it is
\* saved.
C7_ZeroGamesFails ==
    /\ cbb.def =>
          \A i \in Indices(cbb.v) :
              cbb.v[i].Games = 0 =>
                  cbb.v[i].win_perc = Absent /\ cbb.v[i].wab_perc = Absent
    /\ feFile.def => \A i \in Indices(feFile.v) : feFile.v[i].Games # 0

\* the Power_Rating values of the input records of one (Year, Conf) pair
InputGroup(year, conf) ==
    {i \in Indices(s3obj) : s3obj[i].Year = year /\ s3obj[i].Conf = conf}

RECURSIVE SumPower(_)
SumPower(I) ==
    IF I = {} THEN 0
    ELSE LET i == CHOOSE j \in I : TRUE
         IN  s3obj[i].Power_Rating + SumPower(I \ {i})

AvgIsRight(r) ==
    LET a == r.avg_conf_power_rating
        g == InputGroup(r.Year, r.Conf)
    IN  IF r.Conf = "ind"
        THEN a = Num(1, 2)
        ELSE /\ IsFinite(a) /\ a.d > 0
             /\ a.n * Cardinality(g) = SumPower(g) * a.d

AvgColumnRight(df) ==
    /\ "engineer" \notin fe_failed =>
          \A i \in Indices(df) : df[i].avg_conf_power_rating # Absent
    /\ \A i \in Indices(df) :
          df[i].avg_conf_power_rating # Absent => AvgIsRight(df[i])

C9_EncodingAndR68 ==
    /\ \A i \in Indices(Vocabulary) : EncodeLabel(Vocabulary[i]) = Num(i - 1, 1)
    /\ \A a, b \in 0..7 : a # b => DecodeRank(a) # DecodeRank(b)
    /\ EncodeLabel(RemapPostseason("R68")) = Num(0, 1)
    /\ DecodeRank(0) = round_dict[0]
    /\ "R68" \notin encoded

ModelStep == Model_Load \/ Model_Train \/ Model_Predict

\* C10: a run of model() writes the predictions file only if in that run the
\* load and split completed, the scaler was fitted on the training features
\* and applied to the test features, and the classifier was fitted; a
\* failure of any of these means no predictions file, and every step can
\* always be taken, so model() returns.  A failed pickle.dump alone does not
\* stop the predictions file.
C10_PredictionsNeedFittedModel ==
    /\ predsFile.def =>
          /\ train.def /\ test.def /\ y_train.def
          /\ X_train.def /\ X_train.v.scaled
          /\ X_test.def /\ X_test.v.scaled
          /\ scaler = "fitted"
          /\ classifier = "fitted"
    /\ m_failed \cap {"load", "scaler", "fit"} # {} => ~predsFile.def
    /\ (fe_pc = "done" /\ m_pc # "done") => ENABLED ModelStep

\* predictions written in a run whose pickle.dump failed
C10_Witness ==
    /\ m_pc = "done"
    /\ predsFile.def
    /\ m_failed = {"pickle"}

==========================================================================
